---------------------------- MODULE Spec2Model ----------------------------
(***************************************************************************)
(* Quiz buzzer firmware (buzzer-firmware/src): the debounce engine         *)
(* (button.c), the link indicator scheduler and orchestration (main.c),    *)
(* the GATT service (buzzer_service.c), the LED module (led.c) and the     *)
(* battery estimator (battery.c), as one state machine.                    *)
(*                                                                         *)
(* Execution contexts of the firmware:                                     *)
(*   fast    interrupt level: the GPIO edge interrupt and every k_timer    *)
(*           expiry function (debounce, blink, LED auto-off);              *)
(*   bt      the Bluetooth host thread: connected, disconnected, the CCC   *)
(*           callback and the attribute write callback, one at a time;     *)
(*   workq   the system work queue thread: the two work handlers;          *)
(*   main    the main thread.                                              *)
(* A thread gives up the processor only in k_sleep; interrupts are taken   *)
(* between any two statements.  Interrupt service takes microseconds, so   *)
(* the clock of the model (milliseconds) does not advance while an         *)
(* interrupt is latched or an expiry function is due or running, and no    *)
(* thread and no other expiry function runs inside the debounce expiry     *)
(* function.                                                               *)
(***************************************************************************)
EXTENDS Integers, Sequences, FiniteSets

(* ------------------------------ constants ------------------------------ *)

BUTTON_DEBOUNCE_MS == 50

LED_BLINK_DISCONNECTED_MS == 2000

LED_BLINK_CONNECTED_MS == 5000

CONNECT_BLINK_COUNT == 5

LED_AUTO_OFF_TIMEOUT_MS == 5000

BATTERY_DIVIDER_RATIO == 2

BATTERY_FULL_MV == 4200

BATTERY_LOW_MV == 3400

BATTERY_EMPTY_MV == 3000

BATTERY_UPDATE_INTERVAL_MS == 300000

MAIN_LOOP_SLEEP_MS == 10000

(* Uptime at which main reaches button_init: the 500 ms buzzer LED test    *)
(* and the five 100 ms + 100 ms startup blinks come first.                 *)
STARTUP_SEQUENCE_MS == 1500

(* ------------------------------- bounds -------------------------------- *)

(* The uptime clock stops advancing here (past one rate-limit interval).   *)
MaxUptimeMs == 330000

(* The main loop's period is its 10 s sleep plus what the body takes:      *)
(* 0 .. MaxLoopJitterMs milliseconds.                                      *)
MaxLoopJitterMs == 1

(* Arguments given to millivolts_to_percent on its own: MinMv .. MaxMv,    *)
(* from below zero to above what the divider can deliver (7198 mV).        *)
BelowZeroMv == 50

MinMv == 0 - BelowZeroMv

MaxMv == 7250

(* ------------------------------ variables ------------------------------ *)

VARIABLES
    (* button.c *)
    line,                  \* what gpio_pin_get_dt(&button) returns now: 0 = pressed
    last_button_state,     \* button.c:28
    debounce_in_progress,  \* button.c:29
    debounce_timer,        \* button.c:27: ms to expiry, -1 when stopped
    irq_pending,           \* the GPIO edge interrupt is latched, not yet served
    d_pc,                  \* position of debounce_timer_handler
    raw_value,             \* its local raw_value
    cb_out,                \* values the running/last expiry gave user_callback
    user_callback,         \* button.c:24: "NULL" or the registered handler
    button_irq,            \* the edge interrupt is configured and has its callback
    debounce_timer_ready,  \* k_timer_init(&debounce_timer, ...) is done
    button_init_ret,       \* what button_init returned to main, "none" before
    (* main.c *)
    current_conn,          \* main.c:29: TRUE when not NULL
    connection_status,     \* main.c:45
    led_timer,             \* main.c:44: period armed, 0 when stopped
    led_stale,             \* period of a timeout orphaned by k_timer_init, 0 if none
    work_ready,            \* k_work_init done for both work items
    status_led,            \* pin level of led0 (active low: 0 = lit)
    buzzer_led,            \* value last given to gpio_pin_set_dt(&buzzer_led, .)
    workq,                 \* system work queue: pending items, oldest first
    w_pc,                  \* position of the work queue thread
    m_pc,                  \* position of main
    c_pc,                  \* position of connected()
    c_i,                   \* its loop counter i
    advertising,           \* the controller is advertising
    (* buzzer_service.c *)
    button_state,          \* buzzer_service.c:30
    led_rgb,               \* buzzer_service.c:31
    button_state_notify_enabled, \* buzzer_service.c:35
    notified,              \* value of the last bt_gatt_notify, -1 if none
    (* led.c *)
    led_pin,               \* level of LED_RED_PIN
    led_auto_off_timer,    \* TRUE when armed
    auto_off_enabled,      \* led.c:19
    (* battery.c *)
    battery_level,         \* battery.c:49
    last_update_time,      \* battery.c:50
    adc_initialized,       \* battery.c:51 (adc_dev is non-NULL exactly when set)
    adc_sample_buffer,     \* battery.c:40: adc_sample_buffer[0]
    now,                   \* k_uptime_get()
    bas_level,             \* last value given to bt_bas_set_battery_level, -1 if none
    curve_mv,              \* argument mv of a call of millivolts_to_percent
    curve_percent,         \* what that call returned, -1 before it returns
    (* observers: they record what happened and steer nothing; a
       specification switches on the ones its properties read *)
    obs_btn,
    obs_link,
    obs_bat,
    obs_svc,
    fast_blocking          \* fast-context handlers that ran a blocking operation

setup_vars == <<user_callback, button_irq, debounce_timer_ready, button_init_ret>>

button_vars == <<line, last_button_state, debounce_in_progress, debounce_timer,
                 irq_pending, d_pc, raw_value, cb_out, obs_btn, setup_vars>>

callback_vars == <<buzzer_led, button_state, notified, obs_svc, fast_blocking>>

link_vars == <<current_conn, connection_status, led_timer, led_stale, work_ready,
               status_led, workq, w_pc, m_pc, c_pc, c_i, advertising, obs_link>>

service_vars == <<led_rgb, button_state_notify_enabled>>

led_vars == <<led_pin, led_auto_off_timer, auto_off_enabled>>

curve_vars == <<curve_mv, curve_percent>>

battery_vars == <<battery_level, last_update_time, adc_initialized,
                  adc_sample_buffer, now,
                  bas_level, obs_bat, curve_vars>>

vars == <<button_vars, callback_vars, link_vars, service_vars, led_vars,
          battery_vars>>

Min(a, b) == IF a < b THEN a ELSE b

(* Saturating count 0, 1, "2 or more". *)
Count2(n) == Min(n + 1, 2)

(* An observer that is switched off keeps its record as it is. *)
Watch(obs, new) == IF obs.on THEN new ELSE obs

(* C integer division truncates toward zero. *)
CDiv(a, b) == IF a >= 0 THEN a \div b ELSE -((-a) \div b)

(* ------------------------- execution contexts -------------------------- *)

(* Operations that sleep, wait for a buffer or a peripheral, or talk to    *)
(* the radio stack: the ones main.c:47 and main.c:50 keep out of timer and *)
(* Bluetooth callback context.                                             *)
BlockingOps == {"k_sleep", "bt_gatt_notify", "adc_read", "bt_le_adv_start"}

Ops_buzzer_service_send_button_state ==
    IF button_state_notify_enabled # 0 THEN {"bt_gatt_notify"} ELSE {}

Ops_button_pressed_callback ==
    {"printk", "gpio_pin_set_dt"}
        \cup (IF current_conn THEN Ops_buzzer_service_send_button_state ELSE {})

Ops_debounce_timer_handler(fires) ==
    {"gpio_pin_get_dt", "printk"}
        \cup (IF fires THEN Ops_button_pressed_callback ELSE {})

Ops_button_pressed_handler == {"printk", "k_timer_start"}

Ops_led_timer_handler == {"k_work_submit"}

Ops_led_auto_off_handler == {"gpio_pin_set", "k_timer_stop"}

(* A fast-context handler ran the operations ops. *)
RunFast(handler, ops) ==
    fast_blocking' = IF ops \cap BlockingOps # {}
                     THEN fast_blocking \cup {handler}
                     ELSE fast_blocking

(* ------------------------------ button.c ------------------------------- *)

Pressed(level) == level = 0

(* gpio_pin_get_dt on the SoC's own port: the level of the line. *)
gpio_pin_get_dt == {line}

(* Nothing of the debounce engine is latched, due or executing at          *)
(* interrupt level: only then do threads and other expiry functions run.   *)
ExpiryIdle ==
    /\ d_pc = "idle"
    /\ ~irq_pending
    /\ debounce_timer # 0

(* No window pending, no interrupt latched, no expiry running. *)
Quiescent ==
    /\ d_pc = "idle"
    /\ debounce_timer = -1
    /\ ~irq_pending

(* Interrupt level is idle: the clock may advance. *)
Settled ==
    /\ d_pc = "idle"
    /\ ~irq_pending
    /\ debounce_timer # 0

(* The line changes level: the contact closes, opens or bounces.  Both     *)
(* edges latch the interrupt (GPIO_INT_EDGE_BOTH, button.c:103) once       *)
(* button_init has configured it.                                          *)
RawEdge ==
    /\ line' = 1 - line
    /\ irq_pending' = button_irq
    /\ obs_btn' = Watch(obs_btn, [obs_btn EXCEPT
            !.since_edge = 0,
            !.edges_seen = Count2(@),
            !.sparse = IF obs_btn.edges_seen = 0 THEN TRUE
                       ELSE @ /\ obs_btn.since_edge > BUTTON_DEBOUNCE_MS,
            !.edge_cb = 0,
            !.burst_clean =
                IF Quiescent THEN TRUE
                ELSE IF d_pc = "idle" /\ (debounce_timer >= 1 \/ debounce_timer = -1)
                     THEN @
                     ELSE FALSE,
            !.burst_cb = IF Quiescent THEN 0 ELSE @,
            !.burst_stable0 = IF Quiescent THEN last_button_state ELSE @,
            !.burst_line0 = IF Quiescent THEN line ELSE @])
    /\ UNCHANGED <<last_button_state, debounce_in_progress, debounce_timer,
                   d_pc, raw_value, cb_out>>
    /\ UNCHANGED <<callback_vars, link_vars, service_vars, led_vars, battery_vars>>
    /\ UNCHANGED setup_vars

(* button.c:73-77 *)
StartDebounce_restart ==
    /\ debounce_in_progress' = TRUE
    /\ debounce_timer' = BUTTON_DEBOUNCE_MS

StartDebounce ==
    IF ~debounce_in_progress
    THEN /\ debounce_in_progress' = TRUE
         /\ debounce_timer' = BUTTON_DEBOUNCE_MS
    ELSE UNCHANGED <<debounce_in_progress, debounce_timer>>

(* The GPIO interrupt handler, button.c:62-78. *)
button_pressed_handler ==
    /\ irq_pending
    /\ irq_pending' = FALSE
    /\ StartDebounce
    /\ obs_btn' = Watch(obs_btn, [obs_btn EXCEPT
                     !.last_isr = IF debounce_in_progress THEN "ignored" ELSE "opened"])
    /\ RunFast("button_pressed_handler", Ops_button_pressed_handler)
    /\ UNCHANGED <<line, last_button_state, d_pc, raw_value, cb_out>>
    /\ UNCHANGED <<buzzer_led, button_state, notified, obs_svc>>
    /\ UNCHANGED <<link_vars, service_vars, led_vars, battery_vars>>
    /\ UNCHANGED setup_vars

(* buzzer_service.c:130: the gate is open whatever the peer asked for. *)
NotifyEnabled_always(flag) == TRUE

(* buzzer_service.c:130: the peer has enabled notifications. *)
NotifyEnabled(flag) == flag # 0

(* buzzer_service_send_button_state, buzzer_service.c:126-141. *)
buzzer_service_send_button_state(pressed) ==
    /\ button_state' = IF pressed THEN 1 ELSE 0
    /\ notified' = IF NotifyEnabled(button_state_notify_enabled)
                   THEN (IF pressed THEN 1 ELSE 0)
                   ELSE notified
    /\ obs_svc' = Watch(obs_svc, [obs_svc EXCEPT
                      !.send_flip = ~@,
                      !.send_result = IF NotifyEnabled(button_state_notify_enabled)
                                      THEN "0" ELSE "-EACCES",
                      !.notify_flip = IF NotifyEnabled(button_state_notify_enabled)
                                      THEN ~@ ELSE @])

(* button_pressed_callback, main.c:142-161. *)
button_pressed_callback(pressed) ==
    /\ buzzer_led' = IF pressed THEN 1 ELSE 0
    /\ IF current_conn
       THEN buzzer_service_send_button_state(pressed)
       ELSE UNCHANGED <<button_state, notified, obs_svc>>

(* The one-shot debounce timer expires: debounce_timer_handler is entered  *)
(* and clears the flag, button.c:32-36.                                    *)
debounce_expiry_enter_keeps_flag ==
    /\ d_pc = "idle"
    /\ debounce_timer = 0
    /\ debounce_timer' = -1
    /\ d_pc' = "read"
    /\ cb_out' = <<>>
    /\ UNCHANGED <<line, last_button_state, debounce_in_progress, irq_pending,
                   raw_value, obs_btn>>
    /\ UNCHANGED <<callback_vars, link_vars, service_vars, led_vars, battery_vars>>
    /\ UNCHANGED setup_vars

debounce_expiry_enter ==
    /\ d_pc = "idle"
    /\ debounce_timer = 0
    /\ debounce_timer' = -1
    /\ debounce_in_progress' = FALSE
    /\ d_pc' = "read"
    /\ cb_out' = <<>>
    /\ UNCHANGED <<line, last_button_state, irq_pending, raw_value, obs_btn>>
    /\ UNCHANGED <<callback_vars, link_vars, service_vars, led_vars, battery_vars>>
    /\ UNCHANGED setup_vars

(* button.c:40-41: the direct read of the line. *)
debounce_expiry_read ==
    /\ d_pc = "read"
    /\ raw_value' \in gpio_pin_get_dt
    /\ d_pc' = "commit"
    /\ UNCHANGED <<line, last_button_state, debounce_in_progress, debounce_timer,
                   irq_pending, cb_out, obs_btn>>
    /\ UNCHANGED <<callback_vars, link_vars, service_vars, led_vars, battery_vars>>
    /\ UNCHANGED setup_vars

(* What gpio_pin_get_dt returns when the port cannot be read: -EIO. *)
GpioErrors == {-5}

(* button.c:40 with the read failing: raw_value is a negative errno. *)
debounce_expiry_read_error(err) ==
    /\ d_pc = "read"
    /\ err \in GpioErrors
    /\ raw_value' = err
    /\ d_pc' = "commit"
    /\ UNCHANGED <<line, last_button_state, debounce_in_progress, debounce_timer,
                   irq_pending, cb_out, obs_btn>>
    /\ UNCHANGED <<callback_vars, link_vars, service_vars, led_vars, battery_vars>>
    /\ UNCHANGED setup_vars

(* button.c:41: active low. *)
CurrentState_inverted(raw) == raw # 0

CurrentState(raw) == raw = 0

(* button.c:51: only a changed state is committed and reported. *)
StateChanged_always(current_state) == TRUE

StateChanged(current_state) == current_state # last_button_state

(* button.c:50-58: compare, commit, call back. *)
debounce_expiry_commit ==
    /\ d_pc = "commit"
    /\ d_pc' = "idle"
    /\ LET current_state == CurrentState(raw_value)
           fires == StateChanged(current_state)
       IN  /\ IF fires /\ user_callback # "NULL"
              THEN /\ last_button_state' = current_state
                   /\ cb_out' = Append(cb_out, current_state)
                   /\ button_pressed_callback(current_state)
                   /\ obs_btn' = Watch(obs_btn, [obs_btn EXCEPT
                                    !.edge_cb = Count2(@),
                                    !.burst_cb = Count2(@),
                                    !.last_cb = IF current_state THEN 1 ELSE 0])
              ELSE /\ last_button_state' = IF fires THEN current_state
                                           ELSE last_button_state
                   /\ UNCHANGED <<cb_out, buzzer_led, button_state, notified,
                                  obs_svc, obs_btn>>
           /\ RunFast("debounce_timer_handler",
                      Ops_debounce_timer_handler(fires /\ user_callback # "NULL"))
    /\ UNCHANGED <<line, debounce_in_progress, debounce_timer, irq_pending, raw_value>>
    /\ UNCHANGED <<link_vars, service_vars, led_vars, battery_vars>>
    /\ UNCHANGED setup_vars

(* button.c:84: no handler was given. *)
CallbackMissing_unchecked(callback) == FALSE

CallbackMissing(callback) == callback = "NULL"

(* What device_is_ready and the two gpio configuration calls of            *)
(* button_init can report: 0, -ENODEV, -EIO.                               *)
ButtonSetupErrors == {0, -19, -5}

(* main, main.c:277-280, calls button_init(callback), button.c:80-148, and *)
(* goes on whatever it returns; err is what the port and pin setup report. *)
main_button_init(callback, err) ==
    /\ ExpiryIdle
    /\ m_pc = "button_init"
    /\ m_pc' = "battery_init"
    /\ IF CallbackMissing(callback)
       THEN /\ button_init_ret' = "-EINVAL"
            /\ UNCHANGED <<user_callback, button_irq, debounce_timer_ready>>
       ELSE /\ user_callback' = callback
            /\ IF err < 0
               THEN /\ button_init_ret' = IF err = -19 THEN "-ENODEV" ELSE "-EIO"
                    /\ UNCHANGED <<button_irq, debounce_timer_ready>>
               ELSE /\ button_irq' = TRUE
                    /\ debounce_timer_ready' = TRUE
                    /\ button_init_ret' = "0"
    /\ UNCHANGED <<line, last_button_state, debounce_in_progress, debounce_timer,
                   irq_pending, d_pc, raw_value, cb_out, obs_btn>>
    /\ UNCHANGED <<current_conn, connection_status, led_timer, led_stale,
                   work_ready, status_led, workq, w_pc, c_pc, c_i, advertising,
                   obs_link>>
    /\ UNCHANGED <<callback_vars, service_vars, led_vars, battery_vars>>

(* d milliseconds pass with the interrupt level idle. *)
Advance(d) ==
    /\ Settled
    /\ debounce_timer' = IF debounce_timer > 0 THEN debounce_timer - d
                         ELSE debounce_timer
    /\ obs_btn' = Watch(obs_btn, [obs_btn EXCEPT
                     !.since_edge = Min(@ + d, BUTTON_DEBOUNCE_MS + 1)])
    /\ UNCHANGED <<line, last_button_state, debounce_in_progress, irq_pending,
                   d_pc, raw_value, cb_out>>
    /\ UNCHANGED <<callback_vars, link_vars, service_vars, led_vars, battery_vars>>
    /\ UNCHANGED setup_vars

(* One millisecond passes. *)
TickMs == Advance(1)

(* Time passes up to the next debounce expiry, or for longer than a        *)
(* debounce window when none is pending.                                   *)
TickToExpiry ==
    Advance(IF debounce_timer > 0 THEN debounce_timer ELSE BUTTON_DEBOUNCE_MS + 1)

(* ------------------------- main.c: link indicator ---------------------- *)

InQueue(item) == \E k \in 1..Len(workq) : workq[k] = item

(* The submitted item is dropped. *)
k_work_submit_lost(item) == workq

(* k_work_submit: an item already pending is not queued twice. *)
k_work_submit(item) == IF InQueue(item) THEN workq ELSE Append(workq, item)

(* main.c:204-212: the cadence of a link state. *)
BlinkPeriod_swapped(connected) ==
    IF connected THEN LED_BLINK_DISCONNECTED_MS ELSE LED_BLINK_CONNECTED_MS

BlinkPeriod_keeps_running(connected) ==
    IF led_timer # 0 THEN led_timer
    ELSE IF connected THEN LED_BLINK_CONNECTED_MS ELSE LED_BLINK_DISCONNECTED_MS

BlinkPeriod(connected) ==
    IF connected THEN LED_BLINK_CONNECTED_MS ELSE LED_BLINK_DISCONNECTED_MS

(* update_connection_status, main.c:197-213: k_timer_stop, then            *)
(* k_timer_start with the period of the new state.  A timeout orphaned by  *)
(* re-initialising the running timer is outside the timer object: the stop *)
(* may or may not reach it.                                                *)
update_connection_status(connected) ==
    /\ connection_status' = connected
    /\ led_timer' = BlinkPeriod(connected)
    /\ led_stale' \in {0, led_stale}
    /\ obs_link' = Watch(obs_link, [obs_link EXCEPT
                      !.ucs_flip = ~@,
                      !.ucs_arg = connected,
                      !.ucs_seen = Count2(@)])

(* The cadences that are armed. *)
ArmedCadences == {led_timer, led_stale} \ {0}

(* connected(conn, err), main.c:58-76, up to the first k_sleep of its      *)
(* blink loop.  One central at a time connects, and only to an advertiser. *)
connected(err) ==
    /\ ExpiryIdle
    /\ c_pc = "idle"
    /\ advertising
    /\ ~current_conn
    /\ IF err # 0
       THEN UNCHANGED <<link_vars, buzzer_led>>
       ELSE /\ current_conn' = TRUE
            /\ update_connection_status(TRUE)
            /\ advertising' = FALSE
            /\ buzzer_led' = 1
            /\ c_pc' = "on_sleep"
            /\ c_i' = 0
            /\ UNCHANGED <<work_ready, status_led, workq, w_pc, m_pc>>
    /\ UNCHANGED <<button_state, notified, obs_svc, fast_blocking>>
    /\ UNCHANGED <<button_vars, service_vars, led_vars, battery_vars>>

(* connected() wakes from a k_sleep of its loop, main.c:70-75.  Each sleep *)
(* is 100 ms: main, which is ready to run, has finished its start-up by    *)
(* the first wake-up.                                                      *)
connected_wake ==
    /\ ExpiryIdle
    /\ c_pc \in {"on_sleep", "off_sleep"}
    /\ m_pc = "loop"
    /\ IF c_pc = "on_sleep"
       THEN /\ buzzer_led' = 0
            /\ c_pc' = "off_sleep"
            /\ c_i' = c_i
       ELSE IF c_i + 1 < CONNECT_BLINK_COUNT
            THEN /\ buzzer_led' = 1
                 /\ c_pc' = "on_sleep"
                 /\ c_i' = c_i + 1
            ELSE /\ buzzer_led' = buzzer_led
                 /\ c_pc' = "idle"
                 /\ c_i' = 0
    /\ UNCHANGED <<current_conn, connection_status, led_timer, led_stale,
                   work_ready, status_led, workq, w_pc, m_pc, advertising, obs_link>>
    /\ UNCHANGED <<button_state, notified, obs_svc, fast_blocking>>
    /\ UNCHANGED <<button_vars, service_vars, led_vars, battery_vars>>

(* disconnected(conn, reason), main.c:78-91. *)
disconnected ==
    /\ ExpiryIdle
    /\ c_pc = "idle"
    /\ current_conn
    /\ current_conn' = FALSE
    /\ update_connection_status(FALSE)
    /\ workq' = k_work_submit("adv_restart")
    /\ UNCHANGED <<work_ready, status_led, w_pc, m_pc, c_pc, c_i, advertising>>
    /\ UNCHANGED <<callback_vars, button_vars, service_vars, led_vars, battery_vars>>

(* led_timer_handler, main.c:189-195, on a tick of an armed cadence.  The  *)
(* periods are seconds: no tick falls into main's start-up.                *)
led_timer_handler(period) ==
    /\ ExpiryIdle
    /\ period \in ArmedCadences
    /\ m_pc = "loop"
    /\ workq' = k_work_submit("led_flash")
    /\ obs_link' = Watch(obs_link, [obs_link EXCEPT
                      !.queued_by = IF InQueue("led_flash") THEN @ ELSE period])
    /\ RunFast("led_timer_handler", Ops_led_timer_handler)
    /\ UNCHANGED <<current_conn, connection_status, led_timer, led_stale,
                   work_ready, status_led, w_pc, m_pc, c_pc, c_i, advertising>>
    /\ UNCHANGED <<buzzer_led, button_state, notified, obs_svc>>
    /\ UNCHANGED <<button_vars, service_vars, led_vars, battery_vars>>

(* The work queue thread takes the oldest item and runs its handler up to  *)
(* the handler's k_sleep: led_flash_work_handler, main.c:164-180, or       *)
(* adv_restart_work_handler, main.c:99-107.                                *)
work_start ==
    /\ ExpiryIdle
    /\ w_pc = "idle"
    /\ workq # <<>>
    /\ workq' = Tail(workq)
    /\ IF Head(workq) = "led_flash"
       THEN /\ status_led' = 0
            /\ buzzer_led' = IF ~connection_status THEN 1 ELSE buzzer_led
            /\ w_pc' = "flash_sleep"
            /\ obs_link' = Watch(obs_link, [obs_link EXCEPT
                              !.queued_by = 0,
                              !.pulse_by = obs_link.queued_by,
                              !.pulse_after_connect = connection_status,
                              !.pulse_buzzer = ~connection_status])
       ELSE /\ w_pc' = "adv_sleep"
            /\ UNCHANGED <<status_led, buzzer_led, obs_link>>
    /\ UNCHANGED <<current_conn, connection_status, led_timer, led_stale,
                   work_ready, m_pc, c_pc, c_i, advertising>>
    /\ UNCHANGED <<button_state, notified, obs_svc, fast_blocking>>
    /\ UNCHANGED <<button_vars, service_vars, led_vars, battery_vars>>

(* led_flash_work_handler after its 50 ms sleep, main.c:182-186. *)
led_flash_work_wake ==
    /\ ExpiryIdle
    /\ w_pc = "flash_sleep"
    /\ w_pc' = "idle"
    /\ status_led' = 1
    /\ buzzer_led' = IF ~connection_status THEN 0 ELSE buzzer_led
    /\ obs_link' = Watch(obs_link, [obs_link EXCEPT
                      !.pulse_by = 0,
                      !.pulse_buzzer = IF ~connection_status THEN FALSE ELSE @])
    /\ UNCHANGED <<current_conn, connection_status, led_timer, led_stale,
                   work_ready, workq, m_pc, c_pc, c_i, advertising>>
    /\ UNCHANGED <<button_state, notified, obs_svc, fast_blocking>>
    /\ UNCHANGED <<button_vars, service_vars, led_vars, battery_vars>>

(* start_advertising, main.c:118-139: -EALREADY counts as started. *)
start_advertising(err) == advertising \/ err = 0

(* adv_restart_work_handler after its 100 ms sleep, main.c:109-114. *)
adv_restart_work_wake(err) ==
    /\ ExpiryIdle
    /\ w_pc = "adv_sleep"
    /\ w_pc' = "idle"
    /\ advertising' = start_advertising(err)
    /\ UNCHANGED <<current_conn, connection_status, led_timer, led_stale,
                   work_ready, status_led, workq, m_pc, c_pc, c_i, obs_link>>
    /\ UNCHANGED <<callback_vars, button_vars, service_vars, led_vars, battery_vars>>

(* main, main.c:289-311: bt_enable, the device name, buzzer_service_init   *)
(* and the first start_advertising; main returns when one of them fails    *)
(* (err is the first failure, 0 if none).                                  *)
main_bt_start(err) ==
    /\ ExpiryIdle
    /\ m_pc = "bt_enable"
    /\ m_pc' = IF err = 0 THEN "work_init" ELSE "returned"
    /\ advertising' = (err = 0)
    /\ UNCHANGED <<current_conn, connection_status, led_timer, led_stale,
                   work_ready, status_led, workq, w_pc, c_pc, c_i, obs_link>>
    /\ UNCHANGED <<callback_vars, button_vars, service_vars, led_vars, battery_vars>>

(* main, main.c:314-315: k_work_init of both work items. *)
main_work_init ==
    /\ ExpiryIdle
    /\ m_pc = "work_init"
    /\ m_pc' = "timer_init"
    /\ work_ready' = TRUE
    /\ UNCHANGED <<current_conn, connection_status, led_timer, led_stale,
                   status_led, workq, w_pc, c_pc, c_i, advertising, obs_link>>
    /\ UNCHANGED <<callback_vars, button_vars, service_vars, led_vars, battery_vars>>

(* main, main.c:316: k_timer_init(&led_timer, ...).  On a timer that       *)
(* connected() has already started this resets the object while its        *)
(* timeout is queued in the kernel: the timer reads as stopped and the     *)
(* queued timeout is either lost or left behind, still armed.              *)
main_timer_init ==
    /\ ExpiryIdle
    /\ m_pc = "timer_init"
    /\ m_pc' = "timer_start"
    /\ led_timer' = 0
    /\ led_stale' \in {0, led_timer}
    /\ UNCHANGED <<current_conn, connection_status, work_ready, status_led,
                   workq, w_pc, c_pc, c_i, advertising, obs_link>>
    /\ UNCHANGED <<callback_vars, button_vars, service_vars, led_vars, battery_vars>>

(* main, main.c:317: the first k_timer_start, with the disconnected period. *)
main_timer_start ==
    /\ ExpiryIdle
    /\ m_pc = "timer_start"
    /\ m_pc' = "loop"
    /\ led_timer' = LED_BLINK_DISCONNECTED_MS
    /\ UNCHANGED <<current_conn, connection_status, led_stale, work_ready,
                   status_led, workq, w_pc, c_pc, c_i, advertising, obs_link>>
    /\ UNCHANGED <<callback_vars, button_vars, service_vars, led_vars, battery_vars>>

(* --------------------- buzzer_service.c and led.c ---------------------- *)

BT_GATT_CCC_NOTIFY == 1

(* button_state_ccc_changed, buzzer_service.c:38-43. *)
button_state_ccc_changed(value) ==
    /\ ExpiryIdle
    /\ c_pc = "idle"
    /\ current_conn
    /\ button_state_notify_enabled' = IF value = BT_GATT_CCC_NOTIFY THEN 1 ELSE 0
    /\ UNCHANGED led_rgb
    /\ UNCHANGED <<callback_vars, button_vars, link_vars, led_vars, battery_vars>>

(* read_button_state, buzzer_service.c:46-52: what a central reads from    *)
(* the button characteristic (bt_gatt_attr_read of the one byte).          *)
read_button_state == button_state

(* The read reports what the LED shows: zeros once it is off. *)
read_led_control_live == IF led_pin = 1 THEN led_rgb ELSE <<0, 0, 0>>

(* read_led_control, buzzer_service.c:79-85: what a central reads from the *)
(* LED characteristic (bt_gatt_attr_read of the three bytes).              *)
read_led_control == led_rgb

(* led_set_rgb, led.c:54-78 (gpio_dev is set: main stops when led_init     *)
(* fails). *)
led_set_rgb(r, g, b) ==
    LET led_on == (r > 128) \/ (g > 128) \/ (b > 128)
    IN  /\ led_pin' = IF led_on THEN 1 ELSE 0
        /\ led_auto_off_timer' = led_on
        /\ auto_off_enabled' = led_on

(* led_off, led.c:80-89. *)
led_off ==
    /\ led_pin' = 0
    /\ led_auto_off_timer' = FALSE
    /\ auto_off_enabled' = FALSE

(* Only the length is tested, not the offset. *)
LedWriteError_length_only(len, offset) ==
    IF len # 3 THEN "BT_ATT_ERR_INVALID_ATTRIBUTE_LEN" ELSE "none"

(* buzzer_service.c:60-66: the tests write_led_control makes, in order. *)
LedWriteError(len, offset) ==
    IF offset # 0 THEN "BT_ATT_ERR_INVALID_OFFSET"
    ELSE IF len # 3 THEN "BT_ATT_ERR_INVALID_ATTRIBUTE_LEN"
    ELSE "none"

(* write_led_control, buzzer_service.c:55-76: buf holds len bytes. *)
write_led_control(buf, offset) ==
    /\ ExpiryIdle
    /\ c_pc = "idle"
    /\ current_conn
    /\ LET error == LedWriteError(Len(buf), offset)
       IN  /\ IF error # "none"
              THEN UNCHANGED <<led_rgb, led_vars>>
              ELSE /\ led_rgb' = SubSeq(buf, 1, 3)
                   /\ led_set_rgb(buf[1], buf[2], buf[3])
           /\ obs_svc' = Watch(obs_svc, [obs_svc EXCEPT
                             !.write_flip = ~@,
                             !.write_buf = buf,
                             !.write_offset = offset,
                             !.write_result = IF error # "none" THEN error ELSE "len"])
    /\ UNCHANGED button_state_notify_enabled
    /\ UNCHANGED <<buzzer_led, button_state, notified, fast_blocking>>
    /\ UNCHANGED <<button_vars, link_vars, battery_vars>>

(* led_auto_off_handler, led.c:22-26: the one-shot auto-off timer expires. *)
led_auto_off_handler ==
    /\ ExpiryIdle
    /\ led_auto_off_timer
    /\ led_off
    /\ RunFast("led_auto_off_handler", Ops_led_auto_off_handler)
    /\ UNCHANGED <<buzzer_led, button_state, notified, obs_svc>>
    /\ UNCHANGED <<button_vars, link_vars, service_vars, battery_vars>>

(* led_set_rgb, led.c:54-78, on the Bluetooth thread with the auto-off     *)
(* timer of an earlier call expiring inside it, after gpio_pin_set         *)
(* (led.c:63): led_auto_off_handler runs led_off at interrupt level, then  *)
(* led_set_rgb goes on with k_timer_start or k_timer_stop (led.c:66-77).   *)
led_set_rgb_preempted(r, g, b) ==
    LET led_on == (r > 128) \/ (g > 128) \/ (b > 128)
    IN  /\ led_pin' = 0
        /\ led_auto_off_timer' = led_on
        /\ auto_off_enabled' = led_on

(* write_led_control, buzzer_service.c:55-76, accepting buf, with the      *)
(* auto-off timer expiring inside its led_set_rgb.                         *)
write_led_control_preempted(buf) ==
    /\ ExpiryIdle
    /\ c_pc = "idle"
    /\ current_conn
    /\ led_auto_off_timer
    /\ LedWriteError(Len(buf), 0) = "none"
    /\ led_rgb' = SubSeq(buf, 1, 3)
    /\ led_set_rgb_preempted(buf[1], buf[2], buf[3])
    /\ RunFast("led_auto_off_handler", Ops_led_auto_off_handler)
    /\ obs_svc' = Watch(obs_svc, [obs_svc EXCEPT
                      !.write_flip = ~@,
                      !.write_buf = buf,
                      !.write_offset = 0,
                      !.write_result = "len"])
    /\ UNCHANGED button_state_notify_enabled
    /\ UNCHANGED <<buzzer_led, button_state, notified>>
    /\ UNCHANGED <<button_vars, link_vars, battery_vars>>

(* ------------------------------ battery.c ------------------------------ *)

(* adc_to_millivolts without the test for negative samples. *)
adc_to_millivolts_unclamped(adc_value) ==
    CDiv(adc_value * 3600, 4096) * BATTERY_DIVIDER_RATIO

(* adc_to_millivolts, battery.c:63-80 (the products stay far below 2^31). *)
adc_to_millivolts(adc_value) ==
    LET v == IF adc_value < 0 THEN 0 ELSE adc_value
        mv_at_adc == CDiv(v * 3600, 4096)
    IN  mv_at_adc * BATTERY_DIVIDER_RATIO

(* One straight line from empty to full instead of the four segments. *)
millivolts_to_percent_linear(mv) ==
    IF mv >= BATTERY_FULL_MV THEN 100
    ELSE IF mv <= BATTERY_EMPTY_MV THEN 0
    ELSE CDiv((mv - BATTERY_EMPTY_MV) * 100, BATTERY_FULL_MV - BATTERY_EMPTY_MV) % 256

(* The lowest segment cut off: nothing below 3400 mV. *)
millivolts_to_percent_no_low_segment(mv) ==
    IF mv >= BATTERY_FULL_MV THEN 100
    ELSE IF mv < 3400 THEN 0
    ELSE IF mv >= 4000
         THEN (80 + CDiv((mv - 4000) * 20, BATTERY_FULL_MV - 4000)) % 256
    ELSE IF mv >= 3700
         THEN (50 + CDiv((mv - 3700) * 30, 300)) % 256
    ELSE (20 + CDiv((mv - 3400) * 30, 300)) % 256

(* millivolts_to_percent, battery.c:86-115; the result is a uint8_t. *)
millivolts_to_percent(mv) ==
    IF mv >= BATTERY_FULL_MV THEN 100
    ELSE IF mv <= BATTERY_EMPTY_MV THEN 0
    ELSE IF mv >= 4000
         THEN (80 + CDiv((mv - 4000) * 20, BATTERY_FULL_MV - 4000)) % 256
    ELSE IF mv >= 3700
         THEN (50 + CDiv((mv - 3700) * 30, 300)) % 256
    ELSE IF mv >= 3400
         THEN (20 + CDiv((mv - 3400) * 30, 300)) % 256
    ELSE CDiv((mv - BATTERY_EMPTY_MV) * 20, 3400 - BATTERY_EMPTY_MV) % 256

(* A call of millivolts_to_percent(curve_mv) returns. *)
call_millivolts_to_percent ==
    /\ curve_percent = -1
    /\ curve_percent' = millivolts_to_percent(curve_mv)
    /\ UNCHANGED <<curve_mv, battery_level, last_update_time, adc_initialized,
                   adc_sample_buffer, now, bas_level, obs_bat>>
    /\ UNCHANGED <<callback_vars, button_vars, link_vars, service_vars, led_vars>>

(* What adc_read leaves in adc_sample_buffer[0] when it succeeds: noise    *)
(* below zero, 3700 mV, 4198 mV and full scale.                            *)
AdcSamples == {-3, 2105, 2389, 4095}

(* Every value adc_read can leave there: adc_sample_buffer is an int16_t   *)
(* (battery.c:40) and the resolution is 12 bits (battery.c:44).            *)
INT16_MIN == -32768

ADC_FULL_SCALE == 4095

AllAdcSamples == INT16_MIN .. ADC_FULL_SCALE

(* adc_read: an error code, or 0 and a sample. *)
AdcResults == {[err |-> -5, value |-> 0]}
                  \cup {[err |-> 0, value |-> v] : v \in AdcSamples}

(* adc_read(adc_dev, &sequence), battery.c:166 and 208: what is in         *)
(* adc_sample_buffer[0] afterwards; a failed read stores nothing.          *)
adc_read(res) == IF res.err = 0 THEN res.value ELSE adc_sample_buffer

(* battery.c:154: the rate limit; last_update_time = 0 means "never". *)
RateLimited_reversed(t, last) ==
    (t - last) > BATTERY_UPDATE_INTERVAL_MS /\ last # 0

RateLimited(t, last) ==
    (t - last) < BATTERY_UPDATE_INTERVAL_MS /\ last # 0

(* battery.c:159: the ADC can be read (adc_initialized, adc_dev not NULL). *)
AdcAvailable_always(initialized) == TRUE

(* The ADC is never used. *)
AdcAvailable_never(initialized) == FALSE

AdcAvailable(initialized) == initialized

(* battery.c:167: adc_read returned an error. *)
ReadFailed_ignored(err) == FALSE

ReadFailed(err) == err # 0

(* battery.c:177: publish only a level that differs from battery_level. *)
LevelChanged_always(new_level, level) == TRUE

LevelChanged(new_level, level) == new_level # level

(* battery_update, battery.c:150-192, called at uptime t with the ADC      *)
(* available or not; res is what adc_read would return.                    *)
battery_update(t, available, res) ==
    IF RateLimited(t, last_update_time)
    THEN /\ UNCHANGED <<battery_level, last_update_time, bas_level,
                         adc_sample_buffer>>
         /\ obs_bat' = Watch(obs_bat, [obs_bat EXCEPT
                          !.call_flip = ~@,
                          !.prev_call = obs_bat.last_call,
                          !.prev_call_time = obs_bat.call_time,
                          !.last_call = "limited",
                          !.call_time = t])
    ELSE /\ last_update_time' = t
         /\ IF ~AdcAvailable(available)
            THEN /\ bas_level' = battery_level
                 /\ UNCHANGED <<battery_level, adc_sample_buffer>>
            ELSE /\ adc_sample_buffer' = adc_read(res)
                 /\ IF ReadFailed(res.err)
                    THEN UNCHANGED <<battery_level, bas_level>>
                    ELSE LET adc_value == adc_sample_buffer'
                             battery_mv == adc_to_millivolts(adc_value)
                             new_level == millivolts_to_percent(battery_mv)
                         IN  IF LevelChanged(new_level, battery_level)
                             THEN /\ battery_level' = new_level
                                  /\ bas_level' = new_level
                             ELSE UNCHANGED <<battery_level, bas_level>>
         /\ obs_bat' = Watch(obs_bat, [obs_bat EXCEPT
                          !.call_flip = ~@,
                          !.prev_call = obs_bat.last_call,
                          !.prev_call_time = obs_bat.call_time,
                          !.last_call = IF ~available THEN "stub"
                                        ELSE IF res.err # 0 THEN "read_failed"
                                        ELSE "sampled",
                          !.call_time = t,
                          !.read_flip = IF available THEN ~@ ELSE @,
                          !.last_read_time = IF available THEN t ELSE @,
                          !.adc_value = IF available /\ res.err = 0
                                        THEN res.value ELSE @,
                          !.battery_mv = IF available /\ res.err = 0
                                         THEN adc_to_millivolts(res.value) ELSE @,
                          !.pub_flip =
                              IF \/ ~available
                                 \/ /\ res.err = 0
                                    /\ LevelChanged(
                                          millivolts_to_percent(adc_to_millivolts(res.value)),
                                          battery_level)
                              THEN ~@ ELSE @])

(* battery_get_voltage_mv, battery.c:202-214, called by the application    *)
(* between two rounds of main's loop; res is what adc_read would return.   *)
battery_get_voltage_mv(res) ==
    /\ ExpiryIdle
    /\ m_pc = "loop"
    /\ LET ret == IF ~AdcAvailable(adc_initialized) THEN -1
                  ELSE IF ReadFailed(res.err) THEN -1
                  ELSE adc_to_millivolts(adc_read(res))
       IN  obs_bat' = Watch(obs_bat, [obs_bat EXCEPT
                          !.voltage_flip = ~@,
                          !.voltage_ret = ret,
                          !.voltage_res = res])
    /\ adc_sample_buffer' = IF AdcAvailable(adc_initialized) THEN adc_read(res)
                            ELSE adc_sample_buffer
    /\ UNCHANGED <<battery_level, last_update_time, adc_initialized, now,
                   bas_level, curve_vars>>
    /\ UNCHANGED <<callback_vars, button_vars, link_vars, service_vars, led_vars>>

(* main, main.c:283, calls battery_init, battery.c:117-148: without a      *)
(* usable ADC (device not ready, channel setup failed) the level is fixed  *)
(* at 100; with one, the first battery_update is forced.                   *)
main_battery_init(usable, res) ==
    /\ ExpiryIdle
    /\ m_pc = "battery_init"
    /\ m_pc' = "bt_enable"
    /\ adc_initialized' = usable
    /\ IF ~usable
       THEN /\ battery_level' = 100
            /\ UNCHANGED <<last_update_time, bas_level, obs_bat, adc_sample_buffer>>
       ELSE battery_update(now, TRUE, res)
    /\ UNCHANGED <<now, curve_vars>>
    /\ UNCHANGED <<current_conn, connection_status, led_timer, led_stale,
                   work_ready, status_led, workq, w_pc, c_pc, c_i, advertising,
                   obs_link>>
    /\ UNCHANGED <<callback_vars, button_vars, service_vars, led_vars>>

(* main's loop, main.c:327-335: k_sleep(K_SECONDS(10)), battery_update(). *)
main_loop(body_ms, res) ==
    /\ ExpiryIdle
    /\ m_pc = "loop"
    /\ now + MAIN_LOOP_SLEEP_MS + body_ms <= MaxUptimeMs
    /\ now' = now + MAIN_LOOP_SLEEP_MS + body_ms
    /\ battery_update(now', adc_initialized, res)
    /\ UNCHANGED <<adc_initialized, curve_vars>>
    /\ UNCHANGED <<callback_vars, button_vars, link_vars, service_vars, led_vars>>

(* --------------------------- initial states ---------------------------- *)

(* The statics of button.c:24-29 at power-up; the button is up or held     *)
(* down.                                                                   *)
InitButtonStatics(watch) ==
    /\ line \in {0, 1}
    /\ last_button_state = FALSE
    /\ debounce_in_progress = FALSE
    /\ debounce_timer = -1
    /\ irq_pending = FALSE
    /\ d_pc = "idle"
    /\ raw_value = 1
    /\ cb_out = <<>>
    /\ obs_btn = [on |-> watch, since_edge |-> BUTTON_DEBOUNCE_MS + 1, edges_seen |-> 0,
                  boot_line |-> line, sparse |-> TRUE, edge_cb |-> 0,
                  burst_clean |-> FALSE, burst_cb |-> 0, burst_stable0 |-> FALSE,
                  burst_line0 |-> line, last_cb |-> -1, last_isr |-> "none"]

(* The debounce engine before main calls button_init (main.c:277). *)
InitButtonBoot(watch) ==
    /\ InitButtonStatics(watch)
    /\ user_callback = "NULL"
    /\ button_irq = FALSE
    /\ debounce_timer_ready = FALSE
    /\ button_init_ret = "none"

(* The debounce engine after button_init(button_pressed_callback)          *)
(* returned 0.                                                             *)
InitButton(watch) ==
    /\ InitButtonStatics(watch)
    /\ user_callback = "button_pressed_callback"
    /\ button_irq = TRUE
    /\ debounce_timer_ready = TRUE
    /\ button_init_ret = "0"

(* main.c:29, 45 and the outputs after main.c:241-264; main is at pc. *)
InitLink(pc, watch) ==
    /\ current_conn = FALSE
    /\ connection_status = FALSE
    /\ led_timer = IF pc = "loop" THEN LED_BLINK_DISCONNECTED_MS ELSE 0
    /\ led_stale = 0
    /\ work_ready = (pc = "loop")
    /\ status_led = 1
    /\ buzzer_led = 0
    /\ workq = <<>>
    /\ w_pc = "idle"
    /\ m_pc = pc
    /\ c_pc = "idle"
    /\ c_i = 0
    /\ advertising = (pc \notin {"button_init", "battery_init"})
    /\ obs_link = [on |-> watch, ucs_flip |-> FALSE, ucs_arg |-> FALSE, ucs_seen |-> 0,
                   queued_by |-> 0, pulse_by |-> 0, pulse_after_connect |-> FALSE,
                   pulse_buzzer |-> FALSE]
    /\ fast_blocking = {}

(* buzzer_service.c:30-35 and led.c:15-19 after led_init. *)
InitServiceState(watch) ==
    /\ obs_svc = [on |-> watch, send_flip |-> FALSE, send_result |-> "none",
                  notify_flip |-> FALSE, write_flip |-> FALSE, write_buf |-> <<>>,
                  write_offset |-> 0, write_result |-> "none"]
    /\ button_state = 0
    /\ led_rgb = <<0, 0, 0>>
    /\ button_state_notify_enabled = 0
    /\ notified = -1
    /\ led_pin = 0
    /\ led_auto_off_timer = FALSE
    /\ auto_off_enabled = FALSE

(* battery.c:49-51; the uptime when main reaches battery_init. *)
InitBatteryState(watch) ==
    /\ battery_level = 100
    /\ last_update_time = 0
    /\ adc_initialized = FALSE
    /\ adc_sample_buffer = 0
    /\ now \in STARTUP_SEQUENCE_MS .. STARTUP_SEQUENCE_MS + MaxLoopJitterMs
    /\ bas_level = -1
    /\ obs_bat = [on |-> watch, call_flip |-> FALSE, read_flip |-> FALSE, last_call |-> "none",
                  prev_call |-> "none", call_time |-> 0, prev_call_time |-> 0,
                  last_read_time |-> -1, adc_value |-> 0, battery_mv |-> -1,
                  pub_flip |-> FALSE, voltage_flip |-> FALSE, voltage_ret |-> -1,
                  voltage_res |-> [err |-> 0, value |-> 0]]

(* No call of millivolts_to_percent on its own is in progress. *)
InitBattery(watch) ==
    /\ InitBatteryState(watch)
    /\ curve_mv = 0
    /\ curve_percent = -1

InitService == InitServiceState(FALSE)

(* ---------------------------- specifications --------------------------- *)

(* The attribute values a central writes to the LED characteristic. *)
LedWrites == {<<0, 0, 0>>, <<128, 128, 128>>, <<0, 129, 0>>, <<255, 0>>,
              <<1, 2, 3, 4>>}

ErrorCodes == {0, -5}

(* The debounce engine alone, in milliseconds, on a running system that   *)
(* no central is connected to.                                             *)
InitDebounce == InitButton(TRUE) /\ InitLink("loop", FALSE) /\ InitService /\ InitBattery(FALSE)
                    /\ now = STARTUP_SEQUENCE_MS

NextDebounce ==
    \/ RawEdge
    \/ button_pressed_handler
    \/ debounce_expiry_enter
    \/ debounce_expiry_read
    \/ debounce_expiry_commit
    \/ TickMs

SpecDebounce == InitDebounce /\ [][NextDebounce]_vars

(* The debounce engine on a port whose reads can fail. *)
NextDebounceFault ==
    \/ NextDebounce
    \/ \E err \in GpioErrors : debounce_expiry_read_error(err)

SpecDebounceFault == InitDebounce /\ [][NextDebounceFault]_vars

(* The link indicator: main from the return of start_advertising          *)
(* (main.c:308) on, the connection callbacks, the blink timer and the      *)
(* work queue.                                                             *)
InitIndicator == InitButton(FALSE) /\ InitLink("work_init", TRUE) /\ InitService /\ InitBattery(FALSE)
                    /\ line = 1 /\ now = STARTUP_SEQUENCE_MS

NextIndicator ==
    \/ main_work_init
    \/ main_timer_init
    \/ main_timer_start
    \/ \E err \in ErrorCodes : connected(err)
    \/ connected_wake
    \/ disconnected
    \/ \E period \in ArmedCadences : led_timer_handler(period)
    \/ work_start
    \/ led_flash_work_wake
    \/ \E err \in ErrorCodes : adv_restart_work_wake(err)

SpecIndicator == InitIndicator /\ [][NextIndicator]_vars

(* The link indicator on a running system: main has armed the blink timer *)
(* (main.c:317) and sleeps in its loop.                                    *)
InitPulse == InitButton(FALSE) /\ InitLink("loop", TRUE) /\ InitService /\ InitBattery(FALSE)
                /\ line = 1 /\ now = STARTUP_SEQUENCE_MS

NextPulse ==
    \/ \E err \in ErrorCodes : connected(err)
    \/ connected_wake
    \/ disconnected
    \/ \E period \in ArmedCadences : led_timer_handler(period)
    \/ work_start
    \/ led_flash_work_wake
    \/ \E err \in ErrorCodes : adv_restart_work_wake(err)

SpecPulse == InitPulse /\ [][NextPulse]_vars

(* The same with the work queue thread scheduled whenever it has work and  *)
(* every bt_le_adv_start of the restart succeeding.                        *)
NextRestart ==
    \/ \E err \in ErrorCodes : connected(err)
    \/ connected_wake
    \/ disconnected
    \/ \E period \in ArmedCadences : led_timer_handler(period)
    \/ work_start
    \/ led_flash_work_wake
    \/ adv_restart_work_wake(0)

FairRestart ==
    /\ WF_vars(work_start)
    /\ WF_vars(led_flash_work_wake)
    /\ WF_vars(adv_restart_work_wake(0))

SpecRestart == InitPulse /\ [][NextRestart]_vars /\ FairRestart

(* The discharge curve on its own: millivolts_to_percent called with any   *)
(* mv of MinMv .. MaxMv.                                                   *)
InitCurve == InitButton(FALSE) /\ InitLink("loop", FALSE) /\ InitService
                /\ InitBatteryState(FALSE)
                /\ line = 1 /\ now = STARTUP_SEQUENCE_MS
                /\ curve_mv \in MinMv .. MaxMv
                /\ curve_percent = -1

NextCurve == call_millivolts_to_percent

SpecCurve == InitCurve /\ [][NextCurve]_vars

(* The battery estimator: main from battery_init (main.c:283) on, with no  *)
(* central and no button activity.                                         *)
InitEstimator == InitButton(FALSE) /\ InitLink("battery_init", FALSE) /\ InitService /\ InitBattery(TRUE)
                    /\ line = 1

NextEstimator ==
    \/ \E usable \in BOOLEAN, res \in AdcResults : main_battery_init(usable, res)
    \/ \E err \in ErrorCodes : main_bt_start(err)
    \/ main_work_init
    \/ main_timer_init
    \/ main_timer_start
    \/ \E body_ms \in 0..MaxLoopJitterMs, res \in AdcResults : main_loop(body_ms, res)

SpecEstimator == InitEstimator /\ [][NextEstimator]_vars

(* The estimator with the application asking for the raw voltage. *)
NextVoltage ==
    \/ NextEstimator
    \/ \E res \in AdcResults : battery_get_voltage_mv(res)

SpecVoltage == InitEstimator /\ [][NextVoltage]_vars

(* The first sample: battery_init with every value the ADC can deliver. *)
NextSampling ==
    /\ m_pc = "battery_init"
    /\ \E usable \in BOOLEAN, err \in ErrorCodes, v \in AllAdcSamples :
          main_battery_init(usable, [err |-> err, value |-> IF err = 0 THEN v ELSE 0])

SpecSampling == InitEstimator /\ [][NextSampling]_vars

(* Power-up: main from button_init (main.c:277) to its loop, the button    *)
(* being worked all the while.  button_init is given a handler or none.    *)
InitStartup == InitButtonBoot(TRUE) /\ InitLink("button_init", FALSE) /\ InitService /\ InitBattery(FALSE)

NextStartup ==
    \/ \E callback \in {"NULL", "button_pressed_callback"}, err \in ButtonSetupErrors :
          main_button_init(callback, err)
    \/ \E usable \in BOOLEAN, res \in AdcResults : main_battery_init(usable, res)
    \/ \E err \in ErrorCodes : main_bt_start(err)
    \/ main_work_init
    \/ main_timer_init
    \/ main_timer_start
    \/ RawEdge
    \/ button_pressed_handler
    \/ debounce_expiry_enter
    \/ debounce_expiry_read
    \/ debounce_expiry_commit
    \/ TickToExpiry

SpecStartup == InitStartup /\ [][NextStartup]_vars

(* Every handler of every context on a running system; button time passes *)
(* window by window.                                                       *)
Init == InitButton(FALSE) /\ InitLink("loop", FALSE) /\ InitService /\ InitBattery(FALSE)
            /\ line = 1 /\ now = STARTUP_SEQUENCE_MS

Next ==
    \/ RawEdge
    \/ button_pressed_handler
    \/ debounce_expiry_enter
    \/ debounce_expiry_read
    \/ debounce_expiry_commit
    \/ TickToExpiry
    \/ \E err \in ErrorCodes : connected(err)
    \/ connected_wake
    \/ disconnected
    \/ \E period \in ArmedCadences : led_timer_handler(period)
    \/ work_start
    \/ led_flash_work_wake
    \/ \E err \in ErrorCodes : adv_restart_work_wake(err)
    \/ \E value \in 0..2 : button_state_ccc_changed(value)
    \/ \E buf \in LedWrites, offset \in {0, 1} : write_led_control(buf, offset)
    \/ led_auto_off_handler

Spec == Init /\ [][Next]_vars

(* The running firmware with the calls into the GATT service recorded. *)
InitServiceCalls == InitButton(FALSE) /\ InitLink("loop", FALSE) /\ InitServiceState(TRUE)
                       /\ InitBattery(FALSE)
                       /\ line = 1 /\ now = STARTUP_SEQUENCE_MS

(* Connections coming and going, with the advertising restart. *)
NextConnection ==
    \/ \E err \in ErrorCodes : connected(err)
    \/ connected_wake
    \/ disconnected
    \/ work_start
    \/ \E err \in ErrorCodes : adv_restart_work_wake(err)

(* Button events reported to a central that enables and disables           *)
(* notifications.                                                          *)
NextNotify ==
    \/ RawEdge
    \/ button_pressed_handler
    \/ debounce_expiry_enter
    \/ debounce_expiry_read
    \/ debounce_expiry_commit
    \/ TickToExpiry
    \/ NextConnection
    \/ \E value \in 0..2 : button_state_ccc_changed(value)

SpecNotify == InitServiceCalls /\ [][NextNotify]_vars

(* A central writing the LED characteristic. *)
NextLedWrite ==
    \/ NextConnection
    \/ \E buf \in LedWrites, offset \in {0, 1} : write_led_control(buf, offset)
    \/ led_auto_off_handler

SpecLedWrite == InitServiceCalls /\ [][NextLedWrite]_vars

(* The same with the auto-off timer free to expire inside a write. *)
NextLedAutoOff ==
    \/ NextLedWrite
    \/ \E buf \in LedWrites : write_led_control_preempted(buf)

SpecLedAutoOff == InitServiceCalls /\ [][NextLedAutoOff]_vars

(* ------------------ properties of the debounce engine ------------------ *)

Level(pressed) == IF pressed THEN 1 ELSE 0

(* A burst is the edges from one that finds the engine quiescent up to the *)
(* next such edge; it is clean while every later edge of it came strictly  *)
(* inside the window the first one opened.  BurstOver: its window expired  *)
(* and the expiry function has returned.                                   *)
BurstOver == obs_btn.burst_clean /\ Quiescent

(* C1, as stated: edges that all arrive strictly within one debounce       *)
(* window give at most one callback, carrying the level read at expiry; a  *)
(* line back at its original level at expiry gives no callback, a line on  *)
(* a new level gives exactly one callback with the new level.              *)
C1_Original ==
    obs_btn.burst_clean =>
        /\ obs_btn.burst_cb <= 1
        /\ Quiescent =>
             /\ obs_btn.burst_cb = 1 => obs_btn.last_cb = Level(Pressed(line))
             /\ line = obs_btn.burst_line0 => obs_btn.burst_cb = 0
             /\ line # obs_btn.burst_line0 => obs_btn.burst_cb = 1

(* C1, amended: the same with the committed stable value in the place of   *)
(* the original level: no callback when the level read at expiry equals    *)
(* the stable value the burst started with, exactly one callback carrying  *)
(* the level read when it differs.                                         *)
C1_BounceSuppression ==
    obs_btn.burst_clean =>
        /\ obs_btn.burst_cb <= 1
        /\ Quiescent =>
             /\ obs_btn.burst_cb = 1 =>
                    /\ obs_btn.last_cb = Level(Pressed(line))
                    /\ cb_out = <<Pressed(line)>>
             /\ Pressed(line) = obs_btn.burst_stable0 => obs_btn.burst_cb = 0
             /\ Pressed(line) # obs_btn.burst_stable0 => obs_btn.burst_cb = 1

(* A bounce: a second edge inside the window brought the line back, the    *)
(* window expired, nothing was reported.                                   *)
C1_Witness ==
    /\ BurstOver
    /\ obs_btn.last_isr = "ignored"
    /\ line = obs_btn.burst_line0
    /\ obs_btn.burst_cb = 0
    /\ last_button_state

(* C2, as stated: when consecutive edges are more than one debounce window *)
(* apart, every level change, once settled, has produced exactly one       *)
(* callback.                                                               *)
C2_Original ==
    (obs_btn.sparse /\ obs_btn.edges_seen >= 1) =>
        /\ obs_btn.edge_cb <= 1
        /\ Quiescent => obs_btn.edge_cb = 1

(* C2, amended: ... exactly one callback, carrying the new level, except   *)
(* that the first release of a button held down since power-up produces    *)
(* none.                                                                   *)
C2_NoMissedTransitions ==
    (obs_btn.sparse /\ obs_btn.edges_seen >= 1) =>
        /\ obs_btn.edge_cb <= 1
        /\ Quiescent =>
             IF obs_btn.edges_seen = 1 /\ Pressed(obs_btn.boot_line)
             THEN obs_btn.edge_cb = 0
             ELSE /\ obs_btn.edge_cb = 1
                  /\ obs_btn.last_cb = Level(Pressed(line))

(* A second well-separated edge has settled and was reported once. *)
C2_Witness ==
    /\ obs_btn.sparse
    /\ obs_btn.edges_seen = 2
    /\ Quiescent
    /\ obs_btn.edge_cb = 1
    /\ obs_btn.since_edge > BUTTON_DEBOUNCE_MS

(* C3: the edge handler opens a window of BUTTON_DEBOUNCE_MS when none is  *)
(* pending and changes nothing when one is; the pending flag is set        *)
(* exactly while the one debounce deadline is outstanding.                 *)
C3_FirstEdgeWins ==
    /\ [](debounce_in_progress <=> debounce_timer >= 0)
    /\ [][(irq_pending /\ ~irq_pending') =>
            IF debounce_in_progress
            THEN UNCHANGED <<debounce_in_progress, debounce_timer>>
            ELSE debounce_in_progress' /\ debounce_timer' = BUTTON_DEBOUNCE_MS]_vars

(* An edge was served while a window was pending, part of it elapsed. *)
C3_Witness ==
    /\ obs_btn.last_isr = "ignored"
    /\ debounce_in_progress
    /\ debounce_timer > 0
    /\ debounce_timer < BUTTON_DEBOUNCE_MS

(* C4: the expiry function reads the line as it is (pressed iff the read   *)
(* returns 0); a level that differs from the stable value is committed and *)
(* given to the callback exactly once, an equal one changes nothing and    *)
(* calls nothing.                                                          *)
C4_ExpiryCommit ==
    [][/\ (d_pc = "read" /\ d_pc' = "commit") => raw_value' = line
       /\ (d_pc = "commit" /\ d_pc' = "idle") =>
            IF (raw_value = 0) # last_button_state
            THEN /\ last_button_state' = (raw_value = 0)
                 /\ cb_out' = <<raw_value = 0>>
            ELSE /\ last_button_state' = last_button_state
                 /\ cb_out' = <<>>]_vars

(* An expiry found the button released after a press, and said so. *)
C4_Witness ==
    /\ d_pc = "idle"
    /\ cb_out = <<FALSE>>
    /\ ~last_button_state
    /\ raw_value = 1
    /\ obs_btn.edges_seen = 2

(* C5: once an edge has happened and the line has been still for one       *)
(* debounce window, the stable value is the level of the line and no       *)
(* window is left pending, whatever the edges before it were.              *)
C5_EventualCorrectness ==
    (/\ obs_btn.edges_seen >= 1
     /\ obs_btn.since_edge >= BUTTON_DEBOUNCE_MS
     /\ Settled) =>
        /\ last_button_state = Pressed(line)
        /\ debounce_timer = -1

(* The last edge came while the expiry function was due or running; one    *)
(* window later the press is committed.                                    *)
C5_Witness ==
    /\ obs_btn.edges_seen = 2
    /\ ~obs_btn.burst_clean
    /\ obs_btn.since_edge >= BUTTON_DEBOUNCE_MS
    /\ Settled
    /\ last_button_state
    /\ Pressed(line)

(* ------------------ properties of the link indicator ------------------- *)

C7_NoOverlap ==
    /\ Cardinality(ArmedCadences) <= 1
    /\ \A period \in ArmedCadences :
          period = IF connection_status THEN LED_BLINK_CONNECTED_MS
                   ELSE LED_BLINK_DISCONNECTED_MS

(* C8: once the link is connected, no pulse queued by a tick of the        *)
(* disconnected cadence is started, and no pulse has lit the buzzer LED    *)
(* and returned without putting it out.                                    *)
C8_NoOldPulse ==
    /\ ~(/\ w_pc = "flash_sleep"
         /\ obs_link.pulse_by = LED_BLINK_DISCONNECTED_MS
         /\ obs_link.pulse_after_connect)
    /\ ~(w_pc # "flash_sleep" /\ obs_link.pulse_buzzer)

(* C9: no fast-context handler (GPIO edge interrupt, debounce expiry,      *)
(* blink tick, LED auto-off expiry) runs a blocking operation, itself or   *)
(* through what it calls.                                                  *)
C9_TwoStageDispatch == fast_blocking = {}

(* ----------------- properties of the battery estimator ----------------- *)

AdcReads == {"sampled", "read_failed"}

(* C10, as stated: of two calls of battery_update less than                *)
(* BATTERY_UPDATE_INTERVAL_MS apart, exactly one reads the ADC and the     *)
(* other is a no-op (here: of every two consecutive calls, with the ADC    *)
(* available).                                                             *)
C10_Original ==
    (/\ adc_initialized
     /\ obs_bat.prev_call # "none"
     /\ obs_bat.call_time - obs_bat.prev_call_time < BATTERY_UPDATE_INTERVAL_MS) =>
        \/ obs_bat.prev_call \in AdcReads /\ obs_bat.last_call = "limited"
        \/ obs_bat.prev_call = "limited" /\ obs_bat.last_call \in AdcReads

(* C10, amended: of two such calls at most one reads the ADC: a call made  *)
(* less than the interval after a call that read it reads nothing and      *)
(* changes no state; and with the ADC available the first call after       *)
(* start-up reads it whatever the clock says.                              *)
C10_RateLimit ==
    [][(obs_bat.call_flip' # obs_bat.call_flip) =>
          /\ (/\ obs_bat.last_read_time # -1
              /\ now' - obs_bat.last_read_time < BATTERY_UPDATE_INTERVAL_MS) =>
                 /\ UNCHANGED <<battery_level, last_update_time, bas_level>>
                 /\ obs_bat.read_flip' = obs_bat.read_flip
          /\ (obs_bat.last_call = "none" /\ adc_initialized') =>
                 /\ obs_bat.read_flip' # obs_bat.read_flip
                 /\ last_update_time' = now']_vars

(* A call that read the ADC, then a call inside the interval that did not. *)
C10_Witness ==
    /\ obs_bat.prev_call \in AdcReads
    /\ obs_bat.last_call = "limited"
    /\ obs_bat.call_time - obs_bat.prev_call_time < BATTERY_UPDATE_INTERVAL_MS
    /\ now < BATTERY_UPDATE_INTERVAL_MS

(* --------------------- properties of the conversion -------------------- *)

(* The four-segment reference curve of the specification. *)
ReferenceCurve(mv) ==
    IF mv >= 4200 THEN 100
    ELSE IF mv >= 4000 THEN 80 + ((mv - 4000) * 20) \div 200
    ELSE IF mv >= 3700 THEN 50 + ((mv - 3700) * 30) \div 300
    ELSE IF mv >= 3400 THEN 20 + ((mv - 3400) * 30) \div 300
    ELSE IF mv > 3000 THEN ((mv - 3000) * 20) \div 400
    ELSE 0

(* C11: millivolts_to_percent returns the value of the four-segment        *)
(* reference curve for every mv; 100 at 4200 mV, 0 at 3000 mV, 65 at       *)
(* 3850 mV and 35 at 3550 mV.                                              *)
C11_ReferenceCurve ==
    curve_percent # -1 =>
        /\ curve_percent = ReferenceCurve(curve_mv)
        /\ curve_mv = 4200 => curve_percent = 100
        /\ curve_mv = 3000 => curve_percent = 0
        /\ curve_mv = 3850 => curve_percent = 65
        /\ curve_mv = 3550 => curve_percent = 35

(* The call with mv = 3850 has returned 65. *)
C11_Witness == curve_mv = 3850 /\ curve_percent = 65

(* C12: the percent never decreases when mv increases, one more millivolt  *)
(* adds at most one percent, and at 4000, 3700 and 3400 mV the segment     *)
(* below ends on the value the segment above starts with (80, 50, 20).     *)
C12_MonotoneContinuous ==
    curve_percent # -1 =>
        /\ \A mv2 \in curve_mv .. MaxMv : curve_percent <= millivolts_to_percent(mv2)
        /\ curve_mv < MaxMv => millivolts_to_percent(curve_mv + 1) - curve_percent <= 1
        /\ curve_mv = 4000 =>
              curve_percent = 80 /\ 50 + ((curve_mv - 3700) * 30) \div 300 = 80
        /\ curve_mv = 3700 =>
              curve_percent = 50 /\ 20 + ((curve_mv - 3400) * 30) \div 300 = 50
        /\ curve_mv = 3400 =>
              curve_percent = 20 /\ ((curve_mv - 3000) * 20) \div 400 = 20

(* The call at the lowest segment boundary has returned 20. *)
C12_Witness == curve_mv = 3400 /\ curve_percent = 20

(* C13: the battery level and what is published are within 0 .. 100, and   *)
(* for every sample (negative, or 0 .. 4095) the millivolts given to the   *)
(* curve are within 0 .. 7198, 0 for a negative sample, and computed       *)
(* within 32 bits.                                                         *)
C13_Ranges ==
    /\ battery_level \in 0 .. 100
    /\ bas_level \in {-1} \cup (0 .. 100)
    /\ obs_bat.last_call = "sampled" =>
          LET clamped == IF obs_bat.adc_value < 0 THEN 0 ELSE obs_bat.adc_value
          IN  /\ obs_bat.battery_mv \in 0 .. 7198
              /\ obs_bat.adc_value < 0 => obs_bat.battery_mv = 0
              /\ clamped * 3600 <= 2147483647
              /\ battery_level = millivolts_to_percent(obs_bat.battery_mv)

(* The most negative sample was read: 0 mV, 0 percent, published. *)
C13_Witness ==
    /\ obs_bat.last_call = "sampled"
    /\ obs_bat.adc_value = INT16_MIN
    /\ obs_bat.battery_mv = 0
    /\ battery_level = 0
    /\ bas_level = 0

(* ------------- properties of the battery estimator, continued ---------- *)

(* C14, as stated: over any sequence of battery_update calls a call        *)
(* publishes only a percent that differs from the one published before,    *)
(* and a rate-limited call publishes nothing.                              *)
C14_Original ==
    [][(obs_bat.call_flip' # obs_bat.call_flip) =>
          /\ (obs_bat.pub_flip' # obs_bat.pub_flip) => bas_level' # bas_level
          /\ obs_bat.last_call' = "limited" => obs_bat.pub_flip' = obs_bat.pub_flip]_vars

(* C14, amended: with the ADC available a call publishes exactly when the  *)
(* percent it computed differs from battery_level, which is the percent    *)
(* published before (100 while none was), and then publishes that new      *)
(* percent; a rate-limited call publishes nothing; without the ADC every   *)
(* call that is not rate-limited publishes battery_level again.            *)
C14_PublishOnChange ==
    [][(obs_bat.call_flip' # obs_bat.call_flip) =>
          LET published == obs_bat.pub_flip' # obs_bat.pub_flip
          IN  /\ obs_bat.last_call' = "limited" => ~published
              /\ adc_initialized' =>
                    /\ published <=> (/\ obs_bat.last_call' = "sampled"
                                      /\ battery_level' # battery_level)
                    /\ published => /\ bas_level' # bas_level
                                    /\ bas_level' = battery_level'
                    /\ ~published => UNCHANGED <<bas_level, battery_level>>
                    /\ bas_level \in {-1, battery_level}
              /\ ~adc_initialized' =>
                    /\ published <=> obs_bat.last_call' = "stub"
                    /\ published => bas_level' = battery_level
                    /\ UNCHANGED battery_level]_vars

(* Two samples an interval apart, one of them published, the other not. *)
C14_Witness ==
    /\ obs_bat.last_call = "sampled"
    /\ obs_bat.last_read_time >= BATTERY_UPDATE_INTERVAL_MS
    /\ obs_bat.pub_flip
    /\ bas_level = battery_level

(* C15: a battery_update whose adc_read fails leaves battery_level as it   *)
(* was, publishes nothing, and returns: main goes on to its next step.     *)
C15_FailedReadKeepsLevel ==
    [][(obs_bat.call_flip' # obs_bat.call_flip /\ obs_bat.last_call' = "read_failed") =>
          /\ UNCHANGED <<battery_level, bas_level>>
          /\ obs_bat.pub_flip' = obs_bat.pub_flip
          /\ m_pc' \in {"bt_enable", "loop"}]_vars

(* A level below 100 was published, and a later read failed. *)
C15_Witness ==
    /\ obs_bat.last_call = "read_failed"
    /\ obs_bat.last_read_time >= BATTERY_UPDATE_INTERVAL_MS
    /\ battery_level < 100
    /\ bas_level = battery_level

(* C16: the battery_update that follows one whose adc_read failed reads    *)
(* the ADC again.                                                          *)
C16_RetryOnNextTick ==
    [][(obs_bat.call_flip' # obs_bat.call_flip /\ obs_bat.last_call = "read_failed") =>
          obs_bat.read_flip' # obs_bat.read_flip]_vars

(* C17: once battery_init has returned without a usable ADC, main goes on  *)
(* with its start-up, no battery_update reads the ADC, and battery_level   *)
(* is 100 after every call.                                                *)
C17_StubMode ==
    /\ [](m_pc # "battery_init" /\ ~adc_initialized =>
             /\ battery_level = 100
             /\ obs_bat.last_read_time = -1
             /\ ~obs_bat.read_flip
             /\ obs_bat.last_call \in {"none", "stub", "limited"}
             /\ bas_level \in {-1, 100})
    /\ [][(m_pc = "battery_init" /\ m_pc' # "battery_init" /\ ~adc_initialized') =>
             /\ m_pc' = "bt_enable"
             /\ battery_level' = 100
             /\ obs_bat.call_flip' = obs_bat.call_flip]_vars

(* Without the ADC main has reached its loop and called battery_update     *)
(* twice an interval apart.                                                *)
C17_Witness ==
    /\ m_pc = "loop"
    /\ ~adc_initialized
    /\ obs_bat.last_call = "stub"
    /\ obs_bat.call_time >= BATTERY_UPDATE_INTERVAL_MS
    /\ battery_level = 100

(* -------------------- properties of the GATT service ------------------- *)

C19_NotificationGating ==
    [][/\ (/\ obs_svc.send_flip' # obs_svc.send_flip
           /\ button_state_notify_enabled = 0) =>
              /\ obs_svc.send_result' = "-EACCES"
              /\ obs_svc.notify_flip' = obs_svc.notify_flip
              /\ UNCHANGED <<notified, workq>>
       /\ (obs_svc.notify_flip' # obs_svc.notify_flip \/ notified' # notified) =>
              /\ obs_svc.send_flip' # obs_svc.send_flip
              /\ button_state_notify_enabled # 0
              /\ UNCHANGED button_state_notify_enabled]_vars

(* A button event was refused while notifications were off; they have      *)
(* been enabled since and nothing was delivered.                           *)
C19_Witness ==
    /\ obs_svc.send_result = "-EACCES"
    /\ button_state_notify_enabled = 1
    /\ current_conn
    /\ ~obs_svc.notify_flip
    /\ notified = -1

(* ---------------- the debounce engine with failing reads --------------- *)

(* C20: an expiry whose read of the line returned an error invokes no      *)
(* callback and leaves the stable value as it was, whether that was        *)
(* pressed or released.                                                    *)
C20_ReadErrorNoCallback ==
    [][(d_pc = "commit" /\ d_pc' = "idle" /\ raw_value < 0) =>
          /\ UNCHANGED last_button_state
          /\ cb_out' = <<>>]_vars

(* --------------------------- properties of start-up -------------------- *)

(* main goes on to the rest of its start-up after button_init. *)
MainWentOn == m_pc \in {"battery_init", "bt_enable", "work_init", "timer_init",
                         "timer_start", "loop"}

(* The debounce engine is inert: nothing of it is set up, latched, pending *)
(* or running, and it has committed and reported nothing.                  *)
EngineInert ==
    /\ ~button_irq
    /\ ~debounce_timer_ready
    /\ ~irq_pending
    /\ ~debounce_in_progress
    /\ debounce_timer = -1
    /\ d_pc = "idle"
    /\ cb_out = <<>>
    /\ last_button_state = FALSE
    /\ obs_btn.last_cb = -1
    /\ buzzer_led = 0

C22_VoltageReadOnly ==
    /\ [][obs_bat'.voltage_flip # obs_bat.voltage_flip =>
            /\ (obs_bat'.voltage_ret = -1) <=>
                  (~adc_initialized \/ obs_bat'.voltage_res.err # 0)
            /\ obs_bat'.voltage_ret >= -1
            /\ UNCHANGED <<battery_level, last_update_time, bas_level, adc_initialized>>
            /\ obs_bat'.pub_flip = obs_bat.pub_flip
            /\ obs_bat'.call_flip = obs_bat.call_flip]_vars
    /\ [][obs_bat'.call_flip # obs_bat.call_flip =>
            /\ obs_bat'.last_call = "limited" <=>
                  (last_update_time # 0 /\
                   obs_bat'.call_time - last_update_time < BATTERY_UPDATE_INTERVAL_MS)
            /\ obs_bat'.last_call = "sampled" =>
                  LET clamped == IF obs_bat'.adc_value < 0 THEN 0 ELSE obs_bat'.adc_value
                  IN  /\ obs_bat'.battery_mv = ((clamped * 3600) \div 4096) * 2
                      /\ battery_level' = ReferenceCurve(obs_bat'.battery_mv)]_vars

(* The raw voltage was read with a result, and a later battery_update      *)
(* sampled another value: the second of two updates around the call.       *)
C22_Witness ==
    /\ obs_bat.voltage_ret > 0
    /\ obs_bat.last_call = "sampled"
    /\ obs_bat.prev_call # "none"
    /\ adc_sample_buffer = obs_bat.adc_value
    /\ obs_bat.adc_value # obs_bat.voltage_res.value

(* ------------------------ properties of the LED module ----------------- *)

(* C23: whenever the LED output is on the auto-off timer is armed, and     *)
(* whenever it is off the timer is stopped and auto_off_enabled is false.  *)
C23_AutoOff ==
    /\ led_pin = 1 => led_auto_off_timer
    /\ led_pin = 0 => ~led_auto_off_timer /\ ~auto_off_enabled

(* -------------------- properties of the callback sequence -------------- *)

(* C24: the values given to the button callback alternate: each callback   *)
(* carries the opposite of the one before it, and the first one after      *)
(* power-up carries pressed = true, whatever the edges and the levels      *)
(* read, failed reads included.                                            *)
C24_Alternation ==
    [][Len(cb_out') > Len(cb_out) =>
          LET pressed == cb_out'[Len(cb_out')]
          IN  /\ Len(cb_out') = 1
              /\ obs_btn.last_cb = -1 => pressed
              /\ obs_btn.last_cb # -1 => Level(pressed) # obs_btn.last_cb
              /\ obs_btn'.last_cb = Level(pressed)]_vars

(* A press and then a release have been reported. *)
C24_Witness ==
    /\ obs_btn.last_cb = 0
    /\ cb_out = <<FALSE>>
    /\ ~last_button_state
    /\ d_pc = "idle"

(* ------------------- properties of the readable values ----------------- *)

(* C25: whenever a central can read the button characteristic (it is       *)
(* connected and the connected callback has returned), the value it reads  *)
(* is the last committed stable state of the debounce engine, 1 iff        *)
(* pressed.                                                                *)
C25_ReadableState ==
    (current_conn /\ c_pc = "idle") => read_button_state = Level(last_button_state)

(* ----------------------- properties of the buzzer LED ------------------ *)

(* C26: the buzzer LED mirrors the debounced button state: from the        *)
(* callback with pressed = true to the next callback with pressed = false  *)
(* its output is on: no other writer of the output (the flash work         *)
(* handler, the connected callback) has switched it.                       *)
C26_BuzzerLedMirror == last_button_state => buzzer_led = 1

(* ------------------- properties of the advertising restart ------------- *)

(* C27: the disconnected callback leaves advertising as it is, releases    *)
(* the connection handle, arms the disconnected cadence and enqueues the   *)
(* restart work; and whenever the device is neither connected nor          *)
(* advertising it eventually advertises again (the work queue runs, the    *)
(* start succeeds).                                                        *)
C27_AdvertisingRestarts ==
    /\ [][(current_conn /\ ~current_conn') =>
            /\ UNCHANGED advertising
            /\ ~connection_status'
            /\ led_timer' = LED_BLINK_DISCONNECTED_MS
            /\ \E k \in 1..Len(workq') : workq'[k] = "adv_restart"]_vars
    /\ [][(~advertising /\ advertising') => w_pc = "adv_sleep"]_vars
    /\ (~current_conn /\ ~advertising) ~> advertising

(* A central was connected and is gone, and the restart work has put the   *)
(* device back on the air.                                                 *)
C27_Witness ==
    /\ obs_link.ucs_seen = 2
    /\ ~obs_link.ucs_arg
    /\ ~current_conn
    /\ advertising
    /\ w_pc = "idle"
    /\ ~InQueue("adv_restart")

(* C28: a read of the LED characteristic returns 0,0,0 at power-up, the    *)
(* three bytes of a write as soon as that write is accepted (3 bytes at    *)
(* offset 0), and the same as before after every other step: a rejected    *)
(* write, an expiry of the auto-off timer with its led_off, a connection   *)
(* coming or going.  So it always returns the most recent accepted write.  *)
C28_LedRoundTrip ==
    /\ read_led_control = <<0, 0, 0>>
    /\ [][read_led_control' =
             IF /\ obs_svc.write_flip' # obs_svc.write_flip
                /\ obs_svc.write_offset' = 0
                /\ Len(obs_svc.write_buf') = 3
             THEN obs_svc.write_buf'
             ELSE read_led_control]_vars

(* A write lit the LED, the auto-off timer put it out, a later write at    *)
(* offset 1 was rejected: the first write is still what is read.           *)
C28_Witness ==
    /\ obs_svc.write_result = "BT_ATT_ERR_INVALID_OFFSET"
    /\ Len(obs_svc.write_buf) = 3
    /\ obs_svc.write_buf # <<0, 129, 0>>
    /\ read_led_control = <<0, 129, 0>>
    /\ led_pin = 0
    /\ ~led_auto_off_timer

=============================================================================
